---- MODULE Spec2Model ----
(***************************************************************************)
(* TurboGastos WhatsApp ingestor (ingestor/index.js, current revision:     *)
(* src/unnamed/part_000 lines 213-398).                                    *)
(*                                                                         *)
(* The bridge is a single Node.js process.  Every handler runs on the one  *)
(* event loop: the code between two `await`s is one atomic step, and a     *)
(* handler suspended in an `await` is a task that another handler may      *)
(* overtake.  Strings are sequences of tokens; the token "robot" stands    *)
(* for the robot-face emoji of the bot marker.                             *)
(***************************************************************************)
EXTENDS Naturals, Sequences, FiniteSets, TLC

VARIABLES
    targetGroupId,  \* the module-level cache `let targetGroupId = null`
    session,        \* lifecycle state of the WhatsApp session client
    chats,          \* what client.getChats() enumerates at this moment
    tasks,          \* handlers suspended in an await
    xaddQ,          \* xAdd commands sent to Redis and not yet answered (FIFO)
    stream,         \* the Redis stream gastos:msgs
    relayed,        \* history: for each stream entry, the event it came from and the
                    \* cache at the comparison, at the call of xAdd and at the append
    sends,          \* every client.sendMessage call issued, in call order
    logs,           \* number of console.warn / console.error calls so far
    handled,        \* history: message events whose handler has finished
    commands,       \* history: confirmation commands delivered
    lastResolve,    \* history: the listing and result of the latest resolution
    responses,      \* history: HTTP responses written so far
    n               \* number of events delivered so far

vars == <<targetGroupId, session, chats, tasks, xaddQ, stream, relayed, sends, logs,
          handled, commands, lastResolve, responses, n>>

(* ------------------------------ bounds -------------------------------- *)
\* Events the environment delivers in one run: lifecycle events, messages,
\* confirmation commands and changes of the account's conversations.
MaxEvents == 3

(* ----------------------------- JS values ------------------------------ *)
Null == "null"
Undefined == [t |-> "undefined"]
Str(s) == [t |-> "string", v |-> s]

\* Variant: every defined value counts as true, the empty string included.
TruthyDefined(v) == v.t # "undefined"

\* JavaScript truthiness of a JSON field: undefined, null and "" are falsy.
Truthy(v) == v.t = "string" /\ v.v # <<>>

\* a || b
Or(a, b) == IF Truthy(a) THEN a ELSE b

\* String(v)
String(v) == IF v.t = "string" THEN v.v ELSE <<v.t>>

\* String.prototype.startsWith
StartsWith(s, p) == Len(s) >= Len(p) /\ SubSeq(s, 1, Len(p)) = p

(* ---------------------------- configuration --------------------------- *)
TARGET_GROUP_NAME == <<"GastosMyM">>
BotMarker == <<"robot", ":">>
StartupMsgPlain == <<"TurboGastos conectado">>
StartupMsg == <<"robot", ":", " ", "TurboGastos conectado">>

\* Variant: the reply text is sent as it came.
FinalMessagePlain(reply_message) == reply_message

\* `🤖: ${reply_message}`
FinalMessage(reply_message) == <<"robot", ":", " ">> \o reply_message

(* ----------------------------- environment ---------------------------- *)
Chat(id, name, isGroup) == [id |-> id, name |-> name, isGroup |-> isGroup]

\* Account states the enumeration can be in.  The private chat p1 carries the
\* target name but is no group; g2 differs from the target name by case only
\* until it is renamed.
EnumNone == <<Chat("p1", TARGET_GROUP_NAME, FALSE), Chat("g2", <<"gastosmym">>, TRUE)>>
EnumOne == <<Chat("p1", TARGET_GROUP_NAME, FALSE), Chat("g1", TARGET_GROUP_NAME, TRUE),
             Chat("g2", <<"gastosmym">>, TRUE)>>
EnumTwo == <<Chat("g2", TARGET_GROUP_NAME, TRUE), Chat("g1", TARGET_GROUP_NAME, TRUE)>>
Enumerations == {EnumNone, EnumOne, EnumTwo}

Bodies == {<<"Cafe 3.50">>, <<"robot", ":", " ", "Cafe 3.50">>}

ChatIdsOf(cs) == {cs[i].id : i \in DOMAIN cs}
ChatById(cs, id) == cs[CHOOSE i \in DOMAIN cs : cs[i].id = id]

\* A message object of whatsapp-web.js, as far as the bridge reads it.
\* msg.author is the participant who wrote a group message of another
\* account; in a private chat and on a message of the linked account it is
\* undefined and msg.from identifies the sender.
\* origin is bookkeeping: "user" for a message a person typed, "startup" or
\* "confirmation" for the echo of a message the bridge sent itself.
Msg(wid, fromMe, body, chat, origin) ==
    [wid |-> wid, fromMe |-> fromMe, body |-> body, chat |-> chat, origin |-> origin,
     author |-> IF chat = "p1" \/ fromMe THEN Undefined ELSE Str(<<"ana@c.us">>),
     from |-> IF fromMe THEN <<"me@c.us">> ELSE <<chat>>,
     timestamp |-> wid[2],
     type |-> <<"chat">>]

\* What msg.getContact() can resolve to: a contact with both names, one known
\* only by its address-book name, one with neither.
Contacts ==
    {[pushname |-> Str(<<"Ana">>), name |-> Str(<<"Ana Lopez">>)],
     [pushname |-> Undefined, name |-> Str(<<"Ana Perez">>)],
     [pushname |-> Undefined, name |-> Undefined]}

\* The contact entry of a message's sender: the linked account has a
\* pushname, the people who write in g1 are known by their address-book name
\* only, everybody else by neither.
ContactOf(msg) ==
    CHOOSE c \in Contacts :
        IF msg.fromMe THEN Truthy(c.pushname)
        ELSE IF msg.chat = "g1" THEN ~Truthy(c.pushname) /\ Truthy(c.name)
        ELSE ~Truthy(c.pushname) /\ ~Truthy(c.name)

\* Payloads published on gastos:confirmations, by what JSON.parse makes of
\* them: text that is no JSON, the JSON value null, an object.
Malformed == [t |-> "malformed"]
Command(original_wid, reply_message) ==
    [t |-> "object", original_wid |-> original_wid, reply_message |-> reply_message]
JsonNull == [t |-> "null"]
Payloads ==
    {Malformed,
     JsonNull,
     Command(Undefined, Undefined),
     Command(Str(<<"m123">>), Str(<<>>)),
     Command(Undefined, Str(<<"Gasto procesado.">>)),
     Command(Str(<<>>), Str(<<"Gasto procesado.">>)),
     Command(Str(<<"m123">>), Str(<<"Gasto procesado.">>))}

(* ------------------------------- helpers ------------------------------ *)
\* console.warn and console.error calls are counted; console.log is debug
\* output and leaves no trace in the model.
Logged(level) == IF level = "log" THEN logs ELSE [logs EXCEPT ![level] = @ + 1]

NoArg == [t |-> "none"]
Task(kind, pc, arg) == [kind |-> kind, pc |-> pc, arg |-> arg]
\* Every event gets two handler ids, one for each listener it can reach.
NewId == 2 * n + 1
Spawn(task) == tasks @@ (NewId :> task)
Finish(id) == [i \in DOMAIN tasks \ {id} |-> tasks[i]]

\* The environment has delivered fewer events than the model explores.
More == n < MaxEvents

\* chats.find(chat => chat.isGroup && chat.name === TARGET_GROUP_NAME):
\* the index of the first match, 0 when there is none.
\* Variant: any chat of that name qualifies, group or not.
IsTargetAnyChat(chat) == chat.name = TARGET_GROUP_NAME

IsTarget(chat) == chat.isGroup /\ chat.name = TARGET_GROUP_NAME
FindTarget(cs) ==
    IF \E i \in DOMAIN cs : IsTarget(cs[i])
    THEN CHOOSE i \in DOMAIN cs : IsTarget(cs[i]) /\ \A j \in 1..(i - 1) : ~IsTarget(cs[j])
    ELSE 0

\* Variant: the body is compared with the marker instead of its prefix.
IsOwnBotMessageExact(msg) == msg.fromMe /\ msg.body = BotMarker

\* Variant: either condition is enough.
IsOwnOrBotMessage(msg) == msg.fromMe \/ StartsWith(msg.body, BotMarker)

\* if (msg.fromMe && msg.body.startsWith('🤖:')) return;
IsOwnBotMessage(msg) == msg.fromMe /\ StartsWith(msg.body, BotMarker)

Init ==
    /\ targetGroupId = Null
    /\ session = "QR_PENDING"
    /\ chats \in Enumerations
    /\ tasks = <<>>
    /\ xaddQ = <<>>
    /\ stream = <<>>
    /\ relayed = <<>>
    /\ sends = <<>>
    /\ logs = [warn |-> 0, error |-> 0]
    /\ handled = {}
    /\ commands = {}
    /\ lastResolve = [t |-> "none"]
    /\ responses = {}
    /\ n = 0

(* --------------------------- lifecycle events -------------------------- *)
\* client.on('ready'): logs, calls client.getChats() and suspends.
OnReady ==
    /\ More
    /\ session # "AUTH_FAILED"
    /\ session' = "CONNECTED"
    /\ logs' = Logged("log")
    /\ tasks' = Spawn(Task("ready", "getChats", NoArg))
    /\ n' = n + 1
    /\ UNCHANGED <<responses, targetGroupId, chats, xaddQ, stream, relayed, sends, handled, commands,
                   lastResolve>>

\* client.on('qr'): prints the QR challenge.
OnQr ==
    /\ More
    /\ session = "QR_PENDING"
    /\ logs' = Logged("log")
    /\ n' = n + 1
    /\ UNCHANGED <<responses, targetGroupId, session, chats, tasks, xaddQ, stream, relayed, sends,
                   handled, commands, lastResolve>>

\* client.on('auth_failure'): console.error, nothing else.
OnAuthFailure ==
    /\ More
    /\ session # "AUTH_FAILED"
    /\ session' = "AUTH_FAILED"
    /\ logs' = Logged("error")
    /\ n' = n + 1
    /\ UNCHANGED <<responses, targetGroupId, chats, tasks, xaddQ, stream, relayed, sends, handled,
                   commands, lastResolve>>

\* Variant: a disconnection clears the cache.
OnDisconnectedReset ==
    /\ More
    /\ session = "CONNECTED"
    /\ session' = "DISCONNECTED"
    /\ targetGroupId' = Null
    /\ logs' = Logged("log")
    /\ n' = n + 1
    /\ UNCHANGED <<responses, chats, tasks, xaddQ, stream, relayed, sends, handled,
                   commands, lastResolve>>

\* client.on('disconnected'): console.log, nothing else.
OnDisconnected ==
    /\ More
    /\ session = "CONNECTED"
    /\ session' = "DISCONNECTED"
    /\ logs' = Logged("log")
    /\ n' = n + 1
    /\ UNCHANGED <<responses, targetGroupId, chats, tasks, xaddQ, stream, relayed, sends, handled,
                   commands, lastResolve>>

\* client.on('error'): console.error, nothing else.
OnError ==
    /\ More
    /\ logs' = Logged("error")
    /\ n' = n + 1
    /\ UNCHANGED <<responses, targetGroupId, session, chats, tasks, xaddQ, stream, relayed, sends,
                   handled, commands, lastResolve>>

\* The account's conversations change (a group is created, renamed, left).
ChatsChange ==
    /\ More
    /\ chats' \in Enumerations \ {chats}
    /\ n' = n + 1
    /\ UNCHANGED <<responses, targetGroupId, session, tasks, xaddQ, stream, relayed, sends, logs,
                   handled, commands, lastResolve>>

(* ---------------------------- ready handler ---------------------------- *)
\* client.getChats() takes its listing inside the session client; the handler
\* resumes with it in a later turn of the event loop.  The session client
\* answers a call only while it is connected; otherwise the call is rejected.
Listing(cs) == [t |-> "chats", v |-> cs]
Rejected == [t |-> "error"]

GetChatsReturn(id) ==
    /\ id \in DOMAIN tasks /\ tasks[id].kind = "ready" /\ tasks[id].pc = "getChats"
    /\ \E result \in {Listing(chats), Rejected} :
          /\ result.t = "chats" => session = "CONNECTED"
          /\ tasks' = [tasks EXCEPT ![id] = Task("ready", "gotChats", result)]
    /\ UNCHANGED <<responses, targetGroupId, session, chats, xaddQ, stream, relayed, sends, logs,
                   handled, commands, lastResolve, responses, n>>

\* Variant: a re-resolution looks for a group other than the cached one.
ResolveAnother(cs, cur) ==
    LET others == {i \in DOMAIN cs : IsTarget(cs[i]) /\ cs[i].id # cur}
    IN  IF others # {} THEN cs[CHOOSE i \in others : \A j \in others : i <= j].id ELSE cur

\* Variant: a listing without the group clears the cache.
ResolveOrNull(cs, cur) == IF FindTarget(cs) # 0 THEN cs[FindTarget(cs)].id ELSE Null

\* The value of targetGroupId after the handler has looked at the listing:
\* assigned on a match, left alone otherwise.
Resolve(cs, cur) == IF FindTarget(cs) # 0 THEN cs[FindTarget(cs)].id ELSE cur

\* What the history keeps of a resolution: its listing and the cache after
\* it, whether the resolution before it saw the same listing, and the cache
\* after that one.
Resolution(cs, cache) ==
    [t |-> "resolved", listing |-> cs, cache |-> cache,
     repeat |-> lastResolve.t = "resolved" /\ lastResolve.listing = cs,
     before |-> IF lastResolve.t = "resolved" THEN lastResolve.cache ELSE Null]

\* The options argument of sendMessage.
NoQuote == [t |-> "none"]
Quote(wid) == [t |-> "quotedMessageId", id |-> wid]

Send(to, body, options, by) ==
    [to |-> to, body |-> body, options |-> options, by |-> by, status |-> "pending"]

\* The handler from `const targetGroup = chats.find(...)` to the await of
\* sendMessage, or to its end.
ReadyResume(id) ==
    /\ id \in DOMAIN tasks /\ tasks[id].kind = "ready" /\ tasks[id].pc = "gotChats"
    /\ IF tasks[id].arg.t = "error"
       THEN /\ logs' = Logged("error")
            /\ tasks' = Finish(id)
            /\ UNCHANGED <<targetGroupId, sends, lastResolve>>
       ELSE /\ targetGroupId' = Resolve(tasks[id].arg.v, targetGroupId)
            /\ lastResolve' = Resolution(tasks[id].arg.v, targetGroupId')
            /\ IF FindTarget(tasks[id].arg.v) # 0
               THEN /\ logs' = Logged("log")
                    /\ sends' = Append(sends, Send(targetGroupId', StartupMsg, NoQuote, "startup"))
                    /\ tasks' = [tasks EXCEPT ![id] =
                                    Task("ready", "sendMessage", [t |-> "send", v |-> Len(sends) + 1])]
               ELSE /\ logs' = Logged("warn")
                    /\ tasks' = Finish(id)
                    /\ UNCHANGED sends
    /\ UNCHANGED <<responses, session, chats, xaddQ, stream, relayed, handled, commands, n>>

\* Variant: a send that failed is issued again.
SendSettleRetry(id) ==
    /\ id \in DOMAIN tasks /\ tasks[id].pc = "sendMessage"
    /\ \E ok \in BOOLEAN :
          /\ ok => session = "CONNECTED"
          /\ IF ok
             THEN /\ sends' = [sends EXCEPT ![tasks[id].arg.v].status = "sent"]
                  /\ logs' = IF tasks[id].kind \in {"ready", "strict"} THEN Logged("log") ELSE logs
                  /\ tasks' = Finish(id)
             ELSE /\ sends' = Append([sends EXCEPT ![tasks[id].arg.v].status = "failed"],
                                     sends[tasks[id].arg.v])
                  /\ logs' = Logged("error")
                  /\ tasks' = [tasks EXCEPT ![id].arg.v = Len(sends) + 1]
    /\ UNCHANGED <<responses, targetGroupId, session, chats, xaddQ, stream, relayed, handled,
                   commands, lastResolve, n>>

\* Variant: a failed send clears the cache.
SendSettleForget(id) ==
    /\ id \in DOMAIN tasks /\ tasks[id].pc = "sendMessage"
    /\ \E ok \in BOOLEAN :
          /\ ok => session = "CONNECTED"
          /\ sends' = [sends EXCEPT ![tasks[id].arg.v].status = IF ok THEN "sent" ELSE "failed"]
          /\ logs' = IF ~ok THEN Logged("error")
                     ELSE IF tasks[id].kind \in {"ready", "strict"} THEN Logged("log") ELSE logs
          /\ targetGroupId' = IF ok THEN targetGroupId ELSE Null
    /\ tasks' = Finish(id)
    /\ UNCHANGED <<responses, session, chats, xaddQ, stream, relayed, handled, commands,
                   lastResolve, n>>

\* client.sendMessage settles.  A startup notice logs its success; every
\* failure is caught and logged with console.error.  A send can only succeed
\* on a connected session.
SendSettle(id) ==
    /\ id \in DOMAIN tasks /\ tasks[id].pc = "sendMessage"
    /\ \E ok \in BOOLEAN :
          /\ ok => session = "CONNECTED"
          /\ sends' = [sends EXCEPT ![tasks[id].arg.v].status = IF ok THEN "sent" ELSE "failed"]
          /\ logs' = IF ~ok THEN Logged("error")
                     ELSE IF tasks[id].kind \in {"ready", "strict"} THEN Logged("log") ELSE logs
    /\ tasks' = Finish(id)
    /\ UNCHANGED <<responses, targetGroupId, session, chats, xaddQ, stream, relayed, handled, commands,
                   lastResolve, n>>

(* --------------------------- message handlers -------------------------- *)
\* Variant: the cache is compared with undefined, which null is not.
CacheUnsetUndefined(id) == id = "undefined"

\* Variant: only the empty string counts as unset.
CacheUnsetEmpty(id) == id = ""

\* if (!targetGroupId) return;
CacheUnset(id) == id = Null

\* What the history keeps of a message event whose handler has finished:
\* the cache when the event was delivered, the cache when the handler
\* compared the chat with it, how the handler ended and at which step.
Handled(msg, seen, checked, outcome, stage) ==
    [msg |-> msg, seen |-> seen, checked |-> checked, outcome |-> outcome, stage |-> stage]

\* Variant: the cache is looked at before the loop guard.
ProcessCacheFirst(msg, id, st) ==
    IF CacheUnset(targetGroupId)
    THEN [tasks |-> st.tasks,
          handled |-> st.handled \cup
                        {Handled(msg, targetGroupId, targetGroupId, "unresolved", "cache")}]
    ELSE IF IsOwnBotMessage(msg)
         THEN [tasks |-> st.tasks,
               handled |-> st.handled \cup
                             {Handled(msg, targetGroupId, targetGroupId, "ignored", "guard")}]
         ELSE [tasks |-> st.tasks @@
                           (id :> Task("msg", "getChat", [msg |-> msg, seen |-> targetGroupId])),
               handled |-> st.handled]

\* processAndPublishMessage up to its first await, called by one listener:
\* the loop guard, the cache check, then the call of msg.getChat().  st holds
\* the suspended handlers and the history as the listeners called before it
\* have left them; id names the handler if it suspends.
ProcessAndPublishMessage(msg, id, st) ==
    IF IsOwnBotMessage(msg)
    THEN [tasks |-> st.tasks,
          handled |-> st.handled \cup
                        {Handled(msg, targetGroupId, targetGroupId, "ignored", "guard")}]
    ELSE IF CacheUnset(targetGroupId)
         THEN [tasks |-> st.tasks,
               handled |-> st.handled \cup
                             {Handled(msg, targetGroupId, targetGroupId, "unresolved", "cache")}]
         ELSE [tasks |-> st.tasks @@
                           (id :> Task("msg", "getChat", [msg |-> msg, seen |-> targetGroupId])),
               handled |-> st.handled]

\* Variant: the message_create listener passes every message on.
ListensAlways(eventType, msg) == TRUE

\* client.on('message', msg => processAndPublishMessage(msg, 'message'));
\* client.on('message_create', msg => { if (msg.fromMe) processAndPublishMessage(...) });
Listens(eventType, msg) == eventType = "message" \/ msg.fromMe

Listener(eventType, msg, id, st) ==
    IF Listens(eventType, msg) THEN ProcessAndPublishMessage(msg, id, st) ELSE st

\* The session client emits the events one after the other; each listener
\* runs up to its first await before the next one starts.
Emit(events, msg) ==
    LET st0 == [tasks |-> tasks, handled |-> handled]
        st1 == Listener(events[1], msg, NewId, st0)
        st2 == IF Len(events) > 1 THEN Listener(events[2], msg, NewId + 1, st1) ELSE st1
    IN  /\ tasks' = st2.tasks
        /\ handled' = st2.handled
        /\ logs' = Logged("log")

\* A message written by somebody else arrives: the session client emits
\* message_create and then message.
OnMessage(msg) ==
    /\ More
    /\ n' = n + 1
    /\ session = "CONNECTED"
    /\ ~msg.fromMe
    /\ Emit(<<"message_create", "message">>, msg)
    /\ UNCHANGED <<responses, targetGroupId, session, chats, xaddQ, stream, relayed, sends, commands,
                   lastResolve>>

\* The linked account itself wrote a message, on any of its devices: the
\* session client emits message_create only.
OnMessageCreate(msg) ==
    /\ More
    /\ n' = n + 1
    /\ session = "CONNECTED"
    /\ msg.fromMe
    /\ Emit(<<"message_create">>, msg)
    /\ UNCHANGED <<responses, targetGroupId, session, chats, xaddQ, stream, relayed, sends, commands,
                   lastResolve>>

\* A message the bridge sent comes back as a message_create event of the
\* linked account, in the conversation it was sent to.
EchoOfSend(i) ==
    /\ More
    /\ i \in DOMAIN sends /\ sends[i].status = "sent"
    /\ session = "CONNECTED"
    /\ Emit(<<"message_create">>, Msg(<<"sent", i>>, TRUE, sends[i].body, sends[i].to, sends[i].by))
    /\ sends' = [sends EXCEPT ![i].status = "echoed"]
    /\ n' = n + 1
    /\ UNCHANGED <<responses, targetGroupId, session, chats, xaddQ, stream, relayed, commands, lastResolve>>

\* Variant: the chat is recognised by its name, as the earlier revision did.
InTargetGroupByName(chat, id) == chat.isGroup /\ chat.name = TARGET_GROUP_NAME

\* Variant: the comparison is inverted.
InTargetGroupInverted(chat, id) == chat.id # id

\* if (chat.id._serialized === targetGroupId)
InTargetGroup(chat, id) == chat.id = id

\* msg.getChat() settles; on success the handler compares the chat with the
\* cache as it is now and calls msg.getContact().
GetChatSettle(id) ==
    /\ id \in DOMAIN tasks /\ tasks[id].kind = "msg" /\ tasks[id].pc = "getChat"
    /\ LET msg == tasks[id].arg.msg
           seen == tasks[id].arg.seen
       IN  \E ok \in BOOLEAN :
             /\ ok => (session = "CONNECTED" /\ msg.chat \in ChatIdsOf(chats))
             /\ IF ~ok
                THEN /\ logs' = Logged("error")
                     /\ tasks' = Finish(id)
                     /\ handled' = handled \cup {Handled(msg, seen, targetGroupId, "error", "getChat")}
                ELSE IF InTargetGroup(ChatById(chats, msg.chat), targetGroupId)
                     THEN /\ logs' = Logged("log")
                          /\ tasks' = [tasks EXCEPT ![id] =
                                Task("msg", "getContact",
                                     [msg |-> msg, seen |-> seen, checked |-> targetGroupId,
                                      chat |-> ChatById(chats, msg.chat)])]
                          /\ handled' = handled
                     ELSE /\ logs' = logs
                          /\ tasks' = Finish(id)
                          /\ handled' = handled \cup
                                {Handled(msg, seen, targetGroupId, "other_chat", "compare")}
    /\ UNCHANGED <<responses, targetGroupId, session, chats, xaddQ, stream, relayed, sends, commands,
                   lastResolve, n>>

\* Variant: the address-book name is preferred to the pushname.
PayloadNameFirst(msg, chat, contact) ==
    [wid |-> msg.wid,
     chat_id |-> chat.id,
     chat_name |-> chat.name,
     sender_id |-> String(Or(msg.author, Str(msg.from))),
     sender_name |-> String(Or(contact.name, Or(contact.pushname, Str(<<"Unknown">>)))),
     timestamp |-> ToString(msg.timestamp),
     type |-> msg.type,
     body |-> msg.body]

\* const payload = { wid: String(...), ... }
Payload(msg, chat, contact) ==
    [wid |-> msg.wid,
     chat_id |-> chat.id,
     chat_name |-> chat.name,
     sender_id |-> String(Or(msg.author, Str(msg.from))),
     sender_name |-> String(Or(contact.pushname, Or(contact.name, Str(<<"Unknown">>)))),
     timestamp |-> ToString(msg.timestamp),
     type |-> msg.type,
     body |-> msg.body]

\* msg.getContact() settles; on success the payload is built and xAdd called.
GetContactSettle(id) ==
    /\ id \in DOMAIN tasks /\ tasks[id].kind = "msg" /\ tasks[id].pc = "getContact"
    /\ LET a == tasks[id].arg
       IN  \/ /\ logs' = Logged("error")
              /\ tasks' = Finish(id)
              /\ handled' = handled \cup {Handled(a.msg, a.seen, a.checked, "error", "getContact")}
              /\ UNCHANGED xaddQ
           \/ \E contact \in {ContactOf(a.msg)} :
                 /\ session = "CONNECTED"
                 /\ tasks' = [tasks EXCEPT ![id] =
                       Task("msg", "xAdd",
                            [msg |-> a.msg, seen |-> a.seen, checked |-> a.checked,
                             called |-> targetGroupId,
                             payload |-> Payload(a.msg, a.chat, contact)])]
                 /\ xaddQ' = Append(xaddQ, id)
                 /\ UNCHANGED <<logs, handled>>
    /\ UNCHANGED <<responses, targetGroupId, session, chats, stream, relayed, sends, commands,
                   lastResolve, n>>

\* Variant: a failed xAdd is logged and issued again.
XAddSettleRequeue ==
    /\ xaddQ # <<>>
    /\ LET id == Head(xaddQ)
           a == tasks[id].arg
       IN  \/ /\ stream' = Append(stream, a.payload)
              /\ relayed' = Append(relayed, [msg |-> a.msg, checked |-> a.checked,
                                             called |-> a.called, cache |-> targetGroupId])
              /\ logs' = Logged("log")
              /\ handled' = handled \cup {Handled(a.msg, a.seen, a.checked, "relayed", "xAdd")}
              /\ tasks' = Finish(id)
              /\ xaddQ' = Tail(xaddQ)
           \/ /\ logs' = Logged("error")
              /\ xaddQ' = Append(Tail(xaddQ), id)
              /\ UNCHANGED <<stream, relayed, handled, tasks>>
    /\ UNCHANGED <<responses, targetGroupId, session, chats, sends, commands, lastResolve, n>>

\* Redis answers the oldest outstanding xAdd: the entry is in the stream, or
\* the command failed and the handler's catch logs it.
XAddSettle ==
    /\ xaddQ # <<>>
    /\ LET id == Head(xaddQ)
           a == tasks[id].arg
       IN  /\ \/ /\ stream' = Append(stream, a.payload)
                 /\ relayed' = Append(relayed, [msg |-> a.msg, checked |-> a.checked,
                                                called |-> a.called, cache |-> targetGroupId])
                 /\ logs' = Logged("log")
                 /\ handled' = handled \cup {Handled(a.msg, a.seen, a.checked, "relayed", "xAdd")}
              \/ /\ logs' = Logged("error")
                 /\ handled' = handled \cup {Handled(a.msg, a.seen, a.checked, "error", "xAdd")}
                 /\ UNCHANGED <<stream, relayed>>
           /\ tasks' = Finish(id)
    /\ xaddQ' = Tail(xaddQ)
    /\ UNCHANGED <<responses, targetGroupId, session, chats, sends, commands, lastResolve, n>>

(* ------------------------ confirmation subscriber ---------------------- *)
\* Variant: the quote option is always passed, as the earlier revision did.
QuoteAlways(original_wid) == Quote(original_wid)

\* const options = original_wid ? { quotedMessageId: original_wid } : {};
QuoteOptions(original_wid) == IF Truthy(original_wid) THEN Quote(original_wid) ELSE NoQuote

\* Variant: a payload that cannot be read is taken as the reply text itself.
ParseRaw(payload) ==
    IF payload.t = "object" THEN payload ELSE Command(Undefined, Str(<<"raw payload">>))

\* const { original_wid, reply_message } = JSON.parse(message): JSON.parse
\* throws on text that is no JSON, the destructuring throws on null.
Thrown == [t |-> "thrown"]
Parse(payload) == IF payload.t = "object" THEN payload ELSE Thrown

\* What the history keeps of a delivered command: the payload, the cache at
\* that moment and what the listener did.
Delivered(payload, outcome) ==
    [payload |-> payload, cache |-> targetGroupId, outcome |-> outcome]

\* Variant: the group is looked up again between the check and the send.
OnConfirmationLate(payload) ==
    /\ More
    /\ n' = n + 1
    /\ IF CacheUnset(targetGroupId)
       THEN /\ logs' = Logged("error")
            /\ commands' = commands \cup {Delivered(payload, "unresolved")}
            /\ UNCHANGED <<sends, tasks>>
       ELSE IF Parse(payload).t = "thrown"
            THEN /\ logs' = Logged("error")
                 /\ commands' = commands \cup {Delivered(payload, "parse_error")}
                 /\ UNCHANGED <<sends, tasks>>
            ELSE IF Truthy(Parse(payload).reply_message)
                 THEN /\ logs' = Logged("log")
                      /\ sends' = Append(sends,
                            Send(Resolve(chats, targetGroupId), FinalMessage(Parse(payload).reply_message.v),
                                 QuoteOptions(Parse(payload).original_wid), "confirmation"))
                      /\ tasks' = Spawn(Task("conf", "sendMessage",
                                             [t |-> "send", v |-> Len(sends) + 1]))
                      /\ commands' = commands \cup {Delivered(payload, "sent")}
                 ELSE /\ commands' = commands \cup {Delivered(payload, "no_reply")}
                      /\ UNCHANGED <<logs, sends, tasks>>
    /\ UNCHANGED <<responses, targetGroupId, session, chats, xaddQ, stream, relayed, handled, lastResolve>>

\* The listener of gastos:confirmations up to its await of sendMessage.
OnConfirmation(payload) ==
    /\ More
    /\ n' = n + 1
    /\ IF CacheUnset(targetGroupId)
       THEN /\ logs' = Logged("error")
            /\ commands' = commands \cup {Delivered(payload, "unresolved")}
            /\ UNCHANGED <<sends, tasks>>
       ELSE IF Parse(payload).t = "thrown"
            THEN /\ logs' = Logged("error")
                 /\ commands' = commands \cup {Delivered(payload, "parse_error")}
                 /\ UNCHANGED <<sends, tasks>>
            ELSE IF Truthy(Parse(payload).reply_message)
                 THEN /\ logs' = Logged("log")
                      /\ sends' = Append(sends,
                            Send(targetGroupId, FinalMessage(Parse(payload).reply_message.v),
                                 QuoteOptions(Parse(payload).original_wid), "confirmation"))
                      /\ tasks' = Spawn(Task("conf", "sendMessage",
                                             [t |-> "send", v |-> Len(sends) + 1]))
                      /\ commands' = commands \cup {Delivered(payload, "sent")}
                 ELSE /\ commands' = commands \cup {Delivered(payload, "no_reply")}
                      /\ UNCHANGED <<logs, sends, tasks>>
    /\ UNCHANGED <<responses, targetGroupId, session, chats, xaddQ, stream, relayed, handled, lastResolve>>

(* --------------------- ready handler, strict revision ------------------ *)
\* The earlier revision of the ready handler (part_000 lines 43-78): it polls
\* client.getState() once a second until the state is CONNECTED or 30 seconds
\* have passed, and only then enumerates and sends the startup notice.  It
\* keeps no cache and shares nothing with other handlers, so its runs are
\* explored one after the other.
maxWaitTime == 30

\* What client.getState() resolves to.
WAStates == {"CONNECTED", "OPENING"}

Polling(state, waitTime, queries) == [state |-> state, waitTime |-> waitTime, queries |-> queries]

StrictTasks == {id \in DOMAIN tasks : tasks[id].kind = "strict"}

\* Variant: the loop has no ceiling.
LoopContinuesUnbounded(state, waitTime) == state # "CONNECTED"

\* while (state !== 'CONNECTED' && waitTime < maxWaitTime)
LoopContinues(state, waitTime) == state # "CONNECTED" /\ waitTime < maxWaitTime

\* client.on('ready'), strict revision, up to the first await client.getState().
OnReadyStrict ==
    /\ More
    /\ n' = n + 1
    /\ StrictTasks = {}
    /\ session # "AUTH_FAILED"
    /\ session' = "CONNECTED"
    /\ logs' = Logged("log")
    /\ tasks' = Spawn(Task("strict", "getState", Polling("none", 0, 0)))
    /\ UNCHANGED <<responses, targetGroupId, chats, xaddQ, stream, relayed, sends, handled,
                   commands, lastResolve>>

\* client.getState() settles.  After the first query comes the loop test;
\* after a query made inside the loop, waitTime++ and then the loop test.
\* When the loop ends, the handler gives up or calls client.getChats().
GetStateSettle(id) ==
    /\ id \in DOMAIN tasks /\ tasks[id].kind = "strict" /\ tasks[id].pc = "getState"
    /\ LET a == tasks[id].arg
           waitTime == IF a.queries = 0 THEN 0 ELSE a.waitTime + 1
       IN  \/ /\ logs' = Logged("error")
              /\ tasks' = Finish(id)
           \/ \E state \in WAStates :
                 IF LoopContinues(state, waitTime)
                 THEN /\ logs' = Logged("log")
                      /\ tasks' = [tasks EXCEPT ![id] =
                            Task("strict", "sleep", Polling(state, waitTime, a.queries + 1))]
                 ELSE IF state # "CONNECTED"
                      THEN /\ logs' = Logged("error")
                           /\ tasks' = Finish(id)
                      ELSE /\ logs' = Logged("log")
                           /\ tasks' = [tasks EXCEPT ![id] =
                                 Task("strict", "getChats", Polling(state, waitTime, a.queries + 1))]
    /\ UNCHANGED <<responses, targetGroupId, session, chats, xaddQ, stream, relayed, sends,
                   handled, commands, lastResolve, n>>

\* await new Promise(resolve => setTimeout(resolve, 1000)); then the next query.
Sleep(id) ==
    /\ id \in DOMAIN tasks /\ tasks[id].kind = "strict" /\ tasks[id].pc = "sleep"
    /\ tasks' = [tasks EXCEPT ![id].pc = "getState"]
    /\ UNCHANGED <<responses, targetGroupId, session, chats, xaddQ, stream, relayed, sends, logs,
                   handled, commands, lastResolve, n>>

\* client.getChats() settles and the handler looks for the group: it sends
\* the startup notice to it, warns when there is none, or logs the rejection.
StrictResume(id) ==
    /\ id \in DOMAIN tasks /\ tasks[id].kind = "strict" /\ tasks[id].pc = "getChats"
    /\ \E result \in {Listing(chats), Rejected} :
          /\ result.t = "chats" => session = "CONNECTED"
          /\ IF result.t = "error"
             THEN /\ logs' = Logged("error")
                  /\ tasks' = Finish(id)
                  /\ UNCHANGED sends
             ELSE IF FindTarget(result.v) # 0
                  THEN /\ logs' = Logged("log")
                       /\ sends' = Append(sends, Send(result.v[FindTarget(result.v)].id,
                                                      StartupMsg, NoQuote, "startup"))
                       /\ tasks' = [tasks EXCEPT ![id] =
                             Task("strict", "sendMessage",
                                  [t |-> "send", v |-> Len(sends) + 1,
                                   state |-> tasks[id].arg.state, queries |-> tasks[id].arg.queries])]
                  ELSE /\ logs' = Logged("warn")
                       /\ tasks' = Finish(id)
                       /\ UNCHANGED sends
    /\ UNCHANGED <<responses, targetGroupId, session, chats, xaddQ, stream, relayed, handled,
                   commands, lastResolve, n>>

(* ------------------------------- HTTP API ------------------------------ *)
API_KEY == <<"your-secret-key">>

\* What a request can carry as x-api-key header and as api_key query
\* parameter: nothing, an empty value, a wrong key, the shared secret.
Keys == {Undefined, Str(<<>>), Str(<<"wrong">>), Str(API_KEY)}
Request(header, query) == [x_api_key |-> header, api_key |-> query]
Requests == {Request(h, q) : h \in Keys, q \in Keys}

\* const providedKey = req.headers['x-api-key'] || req.query.api_key;
ProvidedKey(req) == Or(req.x_api_key, req.api_key)

\* if (providedKey && providedKey === API_KEY) return next();
apiKeyAuth(req) == Truthy(ProvidedKey(req)) /\ ProvidedKey(req) = Str(API_KEY)

Response(path, req, status, body) == [path |-> path, req |-> req, status |-> status, body |-> body]

\* chats.filter(chat => chat.isGroup).map(group => ({ id, name }))
Groups(cs) ==
    LET gs == SelectSeq(cs, LAMBDA chat : chat.isGroup)
    IN  [i \in DOMAIN gs |-> [id |-> gs[i].id, name |-> gs[i].name]]

\* GET /health: no middleware.  client.info is unset before the session is
\* ready and set while it is connected.
HttpHealth(req) ==
    /\ More
    /\ \E ready \in BOOLEAN :
          /\ session = "QR_PENDING" => ~ready
          /\ session = "CONNECTED" => ready
          /\ responses' = responses \cup
                {Response("/health", req, 200, [t |-> "health", ready |-> ready])}
    /\ n' = n + 1
    /\ UNCHANGED <<targetGroupId, session, chats, tasks, xaddQ, stream, relayed, sends, logs,
                   handled, commands, lastResolve>>

\* GET /groups: apiKeyAuth, then the handler up to await client.getChats().
HttpGroups(req) ==
    /\ More
    /\ IF apiKeyAuth(req)
       THEN /\ tasks' = Spawn(Task("groups", "getChats", [req |-> req]))
            /\ UNCHANGED responses
       ELSE /\ responses' = responses \cup
                   {Response("/groups", req, 401, [t |-> "error", v |-> <<"Unauthorized">>])}
            /\ UNCHANGED tasks
    /\ n' = n + 1
    /\ UNCHANGED <<targetGroupId, session, chats, xaddQ, stream, relayed, sends, logs,
                   handled, commands, lastResolve>>

\* client.getChats() settles for a /groups request: 200 with the groups, or
\* 500 and a logged error.
GroupsRespond(id) ==
    /\ id \in DOMAIN tasks /\ tasks[id].kind = "groups" /\ tasks[id].pc = "getChats"
    /\ \E result \in {Listing(chats), Rejected} :
          /\ result.t = "chats" => session = "CONNECTED"
          /\ IF result.t = "chats"
             THEN /\ responses' = responses \cup
                        {Response("/groups", tasks[id].arg.req, 200,
                                  [t |-> "groups", v |-> Groups(result.v)])}
                  /\ logs' = logs
             ELSE /\ responses' = responses \cup
                        {Response("/groups", tasks[id].arg.req, 500,
                                  [t |-> "error", v |-> <<"Failed to retrieve groups">>])}
                  /\ logs' = Logged("error")
    /\ tasks' = Finish(id)
    /\ UNCHANGED <<targetGroupId, session, chats, xaddQ, stream, relayed, sends, handled,
                   commands, lastResolve, n>>

(* ------------------------------ the system ----------------------------- *)
Messages(fromMe) ==
    {Msg(<<"msg", n + 1>>, fromMe, b, c, "user") : b \in Bodies, c \in ChatIdsOf(chats)}

\* Everything that can happen once the QR challenge has been answered.
Running ==
    \/ OnReady
    \/ OnAuthFailure
    \/ OnDisconnected
    \/ OnError
    \/ ChatsChange
    \/ \E id \in DOMAIN tasks : GetChatsReturn(id)
    \/ \E id \in DOMAIN tasks : ReadyResume(id)
    \/ \E id \in DOMAIN tasks : SendSettle(id)
    \/ \E msg \in Messages(FALSE) : OnMessage(msg)
    \/ \E msg \in Messages(TRUE) : OnMessageCreate(msg)
    \/ \E i \in DOMAIN sends : EchoOfSend(i)
    \/ \E id \in DOMAIN tasks : GetChatSettle(id)
    \/ \E id \in DOMAIN tasks : GetContactSettle(id)
    \/ XAddSettle
    \/ \E payload \in Payloads : OnConfirmation(payload)

Next == OnQr \/ Running

Spec == Init /\ [][Next]_vars

\* The bridge observed from the moment its first readiness handler has
\* resolved the target and the startup notice has been delivered: the state
\* Spec is in after OnReady, GetChatsReturn, ReadyResume and SendSettle on a
\* listing that holds a group of the target name.  n counts the events
\* delivered from there on.
InitResolved ==
    /\ chats \in {cs \in Enumerations : FindTarget(cs) # 0}
    /\ targetGroupId = Resolve(chats, Null)
    /\ session = "CONNECTED"
    /\ tasks = <<>>
    /\ xaddQ = <<>>
    /\ stream = <<>>
    /\ relayed = <<>>
    /\ sends = <<[Send(targetGroupId, StartupMsg, NoQuote, "startup") EXCEPT !.status = "sent"]>>
    /\ logs = [warn |-> 0, error |-> 0]
    /\ handled = {}
    /\ commands = {}
    /\ lastResolve = [t |-> "resolved", listing |-> chats, cache |-> targetGroupId,
                      repeat |-> FALSE, before |-> Null]
    /\ responses = {}
    /\ n = 0

SpecResolved == InitResolved /\ [][Running]_vars

\* The HTTP API.  Its handlers read the session and the account's
\* conversations and write nothing a listener of the bridge reads, so they
\* are explored together with the events that change what they read.
NextHttp ==
    \/ OnQr
    \/ OnReady
    \/ OnAuthFailure
    \/ OnDisconnected
    \/ ChatsChange
    \/ \E id \in DOMAIN tasks : GetChatsReturn(id)
    \/ \E id \in DOMAIN tasks : ReadyResume(id)
    \/ \E id \in DOMAIN tasks : SendSettle(id)
    \/ \E req \in Requests : HttpHealth(req)
    \/ \E req \in Requests : HttpGroups(req)
    \/ \E id \in DOMAIN tasks : GroupsRespond(id)

SpecHttp == Init /\ [][NextHttp]_vars

\* The bridge together with its HTTP API, called without a key and with the
\* configured one.
Callers == {Request(Undefined, Undefined), Request(Str(API_KEY), Undefined)}

NextAll ==
    \/ Next
    \/ HttpHealth(Request(Undefined, Undefined))
    \/ \E req \in Callers : HttpGroups(req)
    \/ \E id \in DOMAIN tasks : GroupsRespond(id)

SpecAll == Init /\ [][NextAll]_vars

\* The confirmation subscriber and the ready handler, which writes the
\* cache the subscriber reads, observed from a resolved target.
NextConfirm ==
    \/ OnReady
    \/ ChatsChange
    \/ \E id \in DOMAIN tasks : GetChatsReturn(id)
    \/ \E id \in DOMAIN tasks : ReadyResume(id)
    \/ \E id \in DOMAIN tasks : SendSettle(id)
    \/ \E payload \in Payloads : OnConfirmation(payload)

SpecConfirm == InitResolved /\ [][NextConfirm]_vars

\* The strict revision of the ready handler.
NextStrict ==
    \/ OnReadyStrict
    \/ ChatsChange
    \/ \E id \in DOMAIN tasks : GetStateSettle(id)
    \/ \E id \in DOMAIN tasks : Sleep(id)
    \/ \E id \in DOMAIN tasks : StrictResume(id)
    \/ \E id \in DOMAIN tasks : SendSettle(id)

SpecStrict == Init /\ [][NextStrict]_vars

(* ------------------------------- claims -------------------------------- *)
\* A self-authored message whose body starts with the bot marker.
Marked(msg) == msg.fromMe /\ Len(msg.body) >= 2 /\ msg.body[1] = "robot" /\ msg.body[2] = ":"

MsgTasks == {id \in DOMAIN tasks : tasks[id].kind = "msg"}

\* C1: a self-authored event whose body starts with the bot marker never lands
\* in the stream: its handler ends at the loop guard, no handler is suspended
\* for it, and no stream entry comes from it, in whatever conversation it was
\* and whatever the cache held.
C1_LoopGuard ==
    /\ \A i \in DOMAIN relayed : ~Marked(relayed[i].msg)
    /\ \A id \in MsgTasks : ~Marked(tasks[id].arg.msg)
    /\ \A h \in handled : Marked(h.msg) => h.outcome = "ignored"

\* C1 witness: the linked account typed a marked message in the target
\* conversation while the target was resolved, and the guard dropped it.
C1_Witness ==
    \E h \in handled :
        /\ Marked(h.msg) /\ h.msg.origin = "user" /\ h.outcome = "ignored"
        /\ h.seen # Null /\ h.msg.chat = h.seen

\* C2: the echo of a confirmation reply is never relayed: no stream entry and
\* no suspended handler comes from a message the confirmation subscriber sent,
\* and every such echo ends at the loop guard.
C2_NoConfirmationLoop ==
    /\ \A i \in DOMAIN relayed : relayed[i].msg.origin # "confirmation"
    /\ \A id \in MsgTasks : tasks[id].arg.msg.origin # "confirmation"
    /\ \A h \in handled : h.msg.origin = "confirmation" => h.outcome = "ignored"

\* C2 witness: a confirmation reply came back as a self-authored event in the
\* target conversation and its handler has finished.
C2_Witness ==
    \E h \in handled :
        /\ h.msg.origin = "confirmation" /\ h.msg.fromMe
        /\ h.seen # Null /\ h.msg.chat = h.seen

\* C3: an event whose conversation id differs from the cached target id when
\* its handler compares the two is not relayed: every stream entry, and every
\* handler past the comparison, belongs to an event whose conversation was the
\* cached target then, and the entry carries that id.
C3_TargetMatch ==
    /\ \A i \in DOMAIN relayed :
          /\ relayed[i].msg.chat = relayed[i].checked
          /\ stream[i].chat_id = relayed[i].msg.chat
    /\ \A id \in MsgTasks :
          tasks[id].pc \in {"getContact", "xAdd"} => tasks[id].arg.msg.chat = tasks[id].arg.checked
    /\ \A h \in handled : h.msg.chat # h.checked => h.outcome # "relayed"

\* C3 witness: a message of the private chat that carries the target's name
\* was compared with a resolved cache and dropped.
C3_Witness ==
    \E h \in handled :
        /\ h.outcome = "other_chat" /\ h.msg.chat = "p1"
        /\ h.checked # Null /\ h.msg.chat # h.checked

EntriesOf(msg) == {i \in DOMAIN stream : stream[i].wid = msg.wid}

\* C4: an event of conversation g that is delivered while the cache holds g,
\* passes the loop guard and meets no failed lookup or append, with the cache
\* still g when the handler compares, ends as exactly one stream entry, whose
\* chat_id is g and whose body is the event's body.
C4_RelayedOnce ==
    \A h \in handled :
        (/\ h.seen # Null /\ h.msg.chat = h.seen /\ h.checked = h.seen
         /\ ~Marked(h.msg) /\ h.outcome # "error")
        => /\ h.outcome = "relayed"
           /\ Cardinality(EntriesOf(h.msg)) = 1
           /\ \A i \in EntriesOf(h.msg) :
                 stream[i].chat_id = h.seen /\ stream[i].body = h.msg.body

\* C4 witness: the readiness handler cached g1 and a message "Cafe 3.50"
\* written by somebody else in g1 was relayed.
C4_Witness ==
    \E h \in handled :
        /\ h.outcome = "relayed" /\ ~h.msg.fromMe /\ h.seen = "g1"
        /\ h.msg.body = <<"Cafe 3.50">>
        /\ lastResolve.t = "resolved" /\ lastResolve.cache = "g1"

AnyMessage == Messages(FALSE) \cup Messages(TRUE)
Delivery(msg) == OnMessage(msg) \/ OnMessageCreate(msg)
NoMatch(cs) == \A i \in DOMAIN cs : ~(cs[i].isGroup /\ cs[i].name = <<"GastosMyM">>)
FailedResolution == lastResolve.t = "resolved" /\ NoMatch(lastResolve.listing)

NewTasks == {id \in DOMAIN tasks' : id \notin DOMAIN tasks}

\* What every step that delivers a message of the account's conversations
\* has in common.
MessageStep ==
    /\ n' = n + 1 /\ session' = session /\ chats' = chats /\ targetGroupId' = targetGroupId
    /\ sends' = sends /\ commands' = commands /\ logs' = logs

\* C5 as stated: after a readiness whose listing holds no conversation with
\* the target name, each inbound event adds no stream entry and logs one
\* warning.
C5_WarningPerEvent ==
    [][\A msg \in AnyMessage :
          (FailedResolution /\ targetGroupId = Null /\ Delivery(msg))
          => (stream' = stream /\ logs'.warn = logs.warn + 1)]_vars

\* C5 amended: a readiness handler whose listing holds no conversation with
\* the target name leaves the cache as it was and logs exactly one warning;
\* an event delivered while the cache is unset logs nothing, suspends no
\* handler and adds no stream entry.
C5_WarningAtReadiness ==
    [][/\ \A id \in DOMAIN tasks :
             (/\ tasks[id].kind = "ready" /\ tasks[id].pc = "gotChats"
              /\ tasks[id].arg.t = "chats" /\ NoMatch(tasks[id].arg.v)
              /\ ReadyResume(id))
             => /\ targetGroupId' = targetGroupId
                /\ logs'.warn = logs.warn + 1 /\ logs'.error = logs.error
                /\ sends' = sends
       /\ MessageStep => \A msg \in AnyMessage :
             (targetGroupId = Null /\ Delivery(msg))
             => (logs' = logs /\ tasks' = tasks /\ xaddQ' = xaddQ /\ stream' = stream)]_vars

\* C5 witness: the only resolution so far found no target, it logged the one
\* warning, and an event that arrived afterwards was dropped.
C5_Witness ==
    /\ FailedResolution /\ lastResolve.before = Null /\ targetGroupId = Null
    /\ logs.warn = 1 /\ stream = <<>>
    /\ \E h \in handled : h.outcome = "unresolved" /\ ~Marked(h.msg)

NonEmpty(v) == v.t = "string" /\ Len(v.v) > 0

\* C6: a command with a non-empty reply text that is delivered while the cache
\* holds g issues exactly one sendMessage: to g, with the marker, a space and
\* the reply text as body, quoting the command's message id when it carries a
\* non-empty one and quoting nothing otherwise.
C6_ConfirmationSend ==
    [][\A p \in Payloads :
          (/\ p.t = "object" /\ NonEmpty(p.reply_message)
           /\ targetGroupId # Null /\ OnConfirmation(p))
          => /\ Len(sends') = Len(sends) + 1
             /\ SubSeq(sends', 1, Len(sends)) = sends
             /\ sends'[Len(sends')].to = targetGroupId
             /\ sends'[Len(sends')].body = <<"robot", ":", " ">> \o p.reply_message.v
             /\ sends'[Len(sends')].options =
                   IF NonEmpty(p.original_wid)
                   THEN [t |-> "quotedMessageId", id |-> p.original_wid]
                   ELSE [t |-> "none"]]_vars

\* C6 witness: with g1 cached, the command {reply "Gasto procesado.", quote
\* m123} was delivered and the send to g1 quoting m123 was issued, and so was
\* one for a command without a quote id.
C6_Witness ==
    /\ \E c \in commands :
          c.outcome = "sent" /\ c.cache = "g1" /\ c.payload.original_wid = Str(<<"m123">>)
    /\ \E i \in DOMAIN sends :
          /\ sends[i].by = "confirmation" /\ sends[i].to = "g1"
          /\ sends[i].options = [t |-> "quotedMessageId", id |-> Str(<<"m123">>)]
    /\ \E i \in DOMAIN sends :
          sends[i].by = "confirmation" /\ sends[i].options = [t |-> "none"]

\* C7: a command delivered while the cache is unset issues no send and logs
\* exactly one error, whatever its payload.
C7_UnresolvedCommand ==
    [][\A p \in Payloads :
          (targetGroupId = Null /\ OnConfirmation(p))
          => /\ sends' = sends /\ tasks' = tasks
             /\ logs'.error = logs.error + 1 /\ logs'.warn = logs.warn]_vars

\* C7 witness: a well-formed command with a reply text and a malformed payload
\* were both delivered while the cache was unset; nothing has been sent.
C7_Witness ==
    /\ sends = <<>>
    /\ \E c \in commands :
          /\ c.outcome = "unresolved" /\ c.cache = Null
          /\ c.payload.t = "object" /\ NonEmpty(c.payload.reply_message)
    /\ \E c \in commands : c.outcome = "unresolved" /\ c.payload.t = "malformed"

\* C8: a resolution that sees the same listing as the resolution before it
\* leaves the cache with the id the earlier one left.
C8_ResolveIdempotent ==
    (lastResolve.t = "resolved" /\ lastResolve.repeat) => lastResolve.cache = lastResolve.before

\* C8 witness: two resolutions in a row saw the listing with two groups of
\* the target name and the cache holds an id.
C8_Witness ==
    /\ lastResolve.t = "resolved" /\ lastResolve.repeat
    /\ lastResolve.listing = EnumTwo /\ targetGroupId # Null

\* C9 as stated, for the commands that arrive after the failure: once
\* auth_failure has been received, a confirmation command that is delivered
\* issues no sendMessage and appends nothing.
C9_HaltAfterAuthFailure ==
    [][\A p \in Payloads :
          (session = "AUTH_FAILED" /\ OnConfirmation(p))
          => (Len(sends') = Len(sends) /\ Len(stream') = Len(stream))]_vars

\* C10 as stated: a confirmation command delivered while the session is
\* disconnected issues no sendMessage and appends nothing.
C10_RefuseWhileDisconnected ==
    [][\A p \in Payloads :
          (session = "DISCONNECTED" /\ OnConfirmation(p))
          => (Len(sends') = Len(sends) /\ Len(stream') = Len(stream))]_vars

\* C11 as stated, taken at the last moment the handler has a say: every
\* stream entry carries the id the cache held when its handler called xAdd,
\* whatever readiness handlers ran while the handler was suspended in getChat
\* or getContact.
C11_RecordMatchesCache ==
    \A i \in DOMAIN relayed : stream[i].chat_id = relayed[i].called

FailedLatest == lastResolve.t = "resolved" /\ FindTarget(lastResolve.listing) = 0

\* C12 as stated: while the latest completed resolution is one that found no
\* conversation of the target name, a confirmation command issues no send and
\* a delivered message suspends no handler and appends nothing.
C12_NoOpAfterFailedResolution ==
    [][FailedLatest =>
          /\ \A p \in Payloads : OnConfirmation(p) => sends' = sends
          /\ \A msg \in AnyMessage :
                Delivery(msg) => (tasks' = tasks /\ stream' = stream)]_vars

Carries(req) == req.x_api_key = Str(<<"your-secret-key">>) \/ req.api_key = Str(<<"your-secret-key">>)

\* C13 as stated: a GET /groups request is answered 401 exactly when it
\* carries the shared secret neither as x-api-key header nor as api_key query
\* parameter, a 401 response holds no conversation data, and GET /health is
\* answered 200 whatever the request carries.
C13_AccessIffSecret ==
    \A r \in responses :
        /\ r.path = "/groups" => ((r.status = 401) <=> ~Carries(r.req))
        /\ r.status = 401 => r.body.t = "error"
        /\ r.path = "/health" => r.status = 200

Qualifying(cs) == {i \in DOMAIN cs : cs[i].isGroup /\ cs[i].name = <<"GastosMyM">>}

\* C14: after a resolution the cache holds the id of the first conversation
\* of the listing that is a group and whose name is exactly the target name;
\* a private chat of that name and a group whose name differs by case are
\* never selected, and a listing without such a group leaves the cache as it
\* was.
C14_ExactFirstMatch ==
    lastResolve.t = "resolved" =>
        /\ targetGroupId = lastResolve.cache
        /\ IF Qualifying(lastResolve.listing) = {}
           THEN lastResolve.cache = lastResolve.before
           ELSE \E i \in Qualifying(lastResolve.listing) :
                   /\ \A j \in Qualifying(lastResolve.listing) : i <= j
                   /\ lastResolve.cache = lastResolve.listing[i].id

\* C14 witness: a resolution over the listing <<p1, g1, g2>>, where p1 is a
\* private chat of the target name and g2 is named "gastosmym", cached g1,
\* and a later one over <<g2, g1>>, both named as the target, cached g2.
C14_Witness ==
    /\ lastResolve.t = "resolved" /\ lastResolve.listing = EnumTwo
    /\ lastResolve.before = "g1" /\ lastResolve.cache = "g2" /\ targetGroupId = "g2"

Unreadable(p) == p.t \in {"malformed", "null"}
SawUnreadable == \E c \in commands : Unreadable(c.payload)

\* C15: a payload that is no JSON object is dropped: its delivery logs exactly
\* one error, issues no send and suspends no handler; and a command with a
\* reply text that is delivered after such a payload, while the target is
\* resolved, still issues its one send.
C15_MalformedDropped ==
    [][\A p \in Payloads :
          OnConfirmation(p) =>
             /\ Unreadable(p) =>
                   /\ sends' = sends /\ tasks' = tasks
                   /\ logs'.error = logs.error + 1 /\ logs'.warn = logs.warn
             /\ (/\ SawUnreadable /\ targetGroupId # Null
                 /\ p.t = "object" /\ NonEmpty(p.reply_message))
                => /\ Len(sends') = Len(sends) + 1
                   /\ sends'[Len(sends')].to = targetGroupId
                   /\ sends'[Len(sends')].body = <<"robot", ":", " ">> \o p.reply_message.v]_vars

\* C15 witness: with the target resolved, text that is no JSON was delivered
\* and dropped, and the latest event is a command whose send is under way.
C15_Witness ==
    /\ \E c \in commands :
          c.payload.t = "malformed" /\ c.cache # Null /\ c.outcome = "parse_error"
    /\ \E id \in DOMAIN tasks : tasks[id].kind = "conf" /\ id = 2 * n - 1
    /\ Len(sends) = 2 /\ sends[2].by = "confirmation" /\ sends[2].status = "pending"

ConfirmationSends(ss) == {i \in DOMAIN ss : ss[i].by = "confirmation"}

\* C16: a delivered command calls sendMessage at most once and nothing else
\* issues a confirmation send; when a confirmation send settles no further
\* send is issued and its handler ends, a failure logging one error; and a
\* failed send stays failed.
C16_AtMostOnce ==
    [][/\ \A p \in Payloads : OnConfirmation(p) => Len(sends') <= Len(sends) + 1
       /\ \A id \in DOMAIN tasks :
             (tasks[id].kind = "conf" /\ SendSettle(id))
             => /\ Len(sends') = Len(sends)
                /\ DOMAIN tasks' = DOMAIN tasks \ {id}
                /\ sends'[tasks[id].arg.v].status \in {"sent", "failed"}
                /\ sends'[tasks[id].arg.v].status = "failed" => logs'.error = logs.error + 1
       /\ \A i \in DOMAIN sends : sends[i].status = "failed" => sends'[i] = sends[i]
       /\ (\A p \in Payloads : ~OnConfirmation(p))
          => ConfirmationSends(sends') = ConfirmationSends(sends)]_vars

\* C16 witness: the send of a confirmation failed, the failure was logged,
\* and no handler is left that could send it again.
C16_Witness ==
    /\ \E i \in DOMAIN sends : sends[i].by = "confirmation" /\ sends[i].status = "failed"
    /\ logs.error = 1 /\ tasks = <<>> /\ Cardinality(commands) = 1

\* How often xAdd has been called for the event with this message id: once
\* for each call still outstanding, each stream entry and each failed call.
XAddCalls(wid, q, ts, st, hs) ==
    Cardinality({i \in DOMAIN q : ts[q[i]].arg.msg.wid = wid})
    + Cardinality({i \in DOMAIN st : st[i].wid = wid})
    + Cardinality({h \in hs : h.msg.wid = wid /\ h.stage = "xAdd" /\ h.outcome = "error"})

Wids(q, ts, st, hs) ==
    {ts[q[i]].arg.msg.wid : i \in DOMAIN q} \cup {st[i].wid : i \in DOMAIN st}
    \cup {h.msg.wid : h \in hs}

AppendFailed == \E h \in handled : h.stage = "xAdd" /\ h.outcome = "error"

\* C17: when Redis rejects an xAdd, that event alone is dropped: one error is
\* logged, its handler ends, the call leaves the queue and nothing is added
\* to the stream; xAdd is never called twice for one event; and an xAdd
\* that succeeds after an earlier failure appends its record as usual.
C17_AppendFailureDropsOne ==
    [][/\ (XAddSettle /\ stream' = stream)
          => /\ logs'.error = logs.error + 1 /\ logs'.warn = logs.warn
             /\ xaddQ' = Tail(xaddQ)
             /\ DOMAIN tasks' = DOMAIN tasks \ {Head(xaddQ)}
             /\ \E h \in handled' \ handled :
                   h.msg = tasks[Head(xaddQ)].arg.msg /\ h.outcome = "error"
       /\ \A wid \in Wids(xaddQ', tasks', stream', handled') :
             XAddCalls(wid, xaddQ', tasks', stream', handled') <= 1
       /\ (AppendFailed /\ XAddSettle /\ stream' # stream)
          => stream' = Append(stream, tasks[Head(xaddQ)].arg.payload)]_vars

\* C17 witness: the xAdd of one event failed and was logged, and an event
\* delivered after it was relayed.
C17_Witness ==
    \E h, k \in handled :
        /\ h.stage = "xAdd" /\ h.outcome = "error" /\ EntriesOf(h.msg) = {}
        /\ k.outcome = "relayed" /\ h.msg.wid[2] < k.msg.wid[2] /\ h.msg.wid[1] = k.msg.wid[1]
        /\ logs.error = 1 /\ Len(stream) = 1

\* C18: a message event, whether of another account (emitted as
\* message_create and as message) or of the linked account (emitted as
\* message_create only), that passes the loop guard while the target is
\* resolved starts exactly one handler, and an event that does not pass
\* starts none; no message id ever occurs twice in the stream, and a relayed
\* message has exactly one entry.
C18_BothSourcesOnce ==
    [][/\ MessageStep => \A msg \in AnyMessage :
             Delivery(msg) =>
                IF targetGroupId # Null /\ ~Marked(msg)
                THEN /\ Cardinality(NewTasks) = 1
                     /\ \A id \in NewTasks : tasks'[id].arg.msg = msg
                ELSE NewTasks = {}
       /\ stream' # stream =>
             /\ \A i, j \in DOMAIN stream' : stream'[i].wid = stream'[j].wid => i = j
             /\ \A h \in handled' :
                   h.outcome = "relayed" =>
                      Cardinality({i \in DOMAIN stream' : stream'[i].wid = h.msg.wid}) = 1]_vars

\* C18 witness: a message of another account and an unmarked message of the
\* linked account, both in the target conversation, have one entry each.
C18_Witness ==
    /\ Len(stream) = 2
    /\ \E h, k \in handled :
          /\ h.outcome = "relayed" /\ ~h.msg.fromMe /\ Cardinality(EntriesOf(h.msg)) = 1
          /\ k.outcome = "relayed" /\ k.msg.fromMe /\ Cardinality(EntriesOf(k.msg)) = 1

\* C19: the loop guard decides first.  The handler of a self-authored marked
\* event ends at the guard, whether or not the cache is set: it calls no
\* getChat, no getContact and no xAdd and appends nothing; and no event that
\* reaches the cache check, a lookup or the comparison is one the guard
\* rejects.
C19_GuardFirst ==
    [][/\ MessageStep => \A msg \in AnyMessage :
             (Marked(msg) /\ Delivery(msg))
             => /\ tasks' = tasks /\ xaddQ' = xaddQ /\ stream' = stream /\ logs' = logs
                /\ \A h \in handled' \ handled : h.msg = msg /\ h.stage = "guard"
       /\ \A h \in handled' \ handled : (h.stage = "guard") <=> Marked(h.msg)
       /\ \A id \in NewTasks :
             tasks'[id].kind = "msg" => ~Marked(tasks'[id].arg.msg)]_vars

\* C19 witness: a marked message of the linked account was rejected at the
\* guard while the cache was unset, and another while it was set.
C19_Witness ==
    \E h, k \in handled :
        /\ Marked(h.msg) /\ h.stage = "guard" /\ h.seen = Null
        /\ Marked(k.msg) /\ k.stage = "guard" /\ k.seen # Null

HasMarker(body) == Len(body) >= 2 /\ body[1] = "robot" /\ body[2] = ":"
OneConditionOnly(msg) == (msg.fromMe /\ ~HasMarker(msg.body)) \/ (~msg.fromMe /\ HasMarker(msg.body))

\* C20: an event for which only one of the two conditions holds, written by
\* another account with the marker in front or written by the linked account
\* without it, never ends at the loop guard; when it is in the conversation
\* the cache holds and no lookup or append fails, it is relayed, with one
\* stream entry that carries its body.
C20_GuardNeedsBoth ==
    \A h \in handled :
        OneConditionOnly(h.msg) =>
           /\ h.stage # "guard" /\ h.outcome # "ignored"
           /\ (/\ h.seen # Null /\ h.msg.chat = h.seen /\ h.checked = h.seen
               /\ h.outcome # "error")
              => /\ h.outcome = "relayed"
                 /\ \E i \in DOMAIN stream :
                       /\ stream[i].wid = h.msg.wid /\ stream[i].body = h.msg.body
                       /\ \A j \in DOMAIN stream : stream[j].wid = h.msg.wid => j = i

\* C20 witness: a message of another account that starts with the marker and
\* a message of the linked account that does not were both relayed.
C20_Witness ==
    \E h, k \in handled :
        /\ ~h.msg.fromMe /\ HasMarker(h.msg.body) /\ h.outcome = "relayed"
        /\ k.msg.fromMe /\ ~HasMarker(k.msg.body) /\ k.outcome = "relayed"

\* A measure of how far a strict ready handler is from its end.
Rank(task) ==
    IF task.pc = "getState" THEN 200 - 2 * task.arg.queries
    ELSE IF task.pc = "sleep" THEN 201 - 2 * task.arg.queries
    ELSE IF task.pc = "getChats" THEN 2
    ELSE 1

\* C21: a strict ready handler queries the connection state at most 31
\* times, the first query and 30 more; each of its steps brings it closer to
\* its end; when the 31st query does not answer CONNECTED it ends with one
\* logged error, no enumeration and no send; and it enumerates, and sends the
\* startup notice, only after a query answered CONNECTED.
C21_StrictReadiness ==
    [][\A id \in DOMAIN tasks :
          (tasks[id].kind = "strict" /\ (id \notin DOMAIN tasks' \/ tasks'[id] # tasks[id]))
          => /\ id \in DOMAIN tasks' =>
                   /\ Rank(tasks'[id]) < Rank(tasks[id])
                   /\ tasks'[id].arg.queries <= 31
                   /\ tasks'[id].pc \in {"getChats", "sendMessage"}
                         => tasks'[id].arg.state = "CONNECTED"
             /\ (tasks[id].pc = "getState" /\ tasks[id].arg.queries = 30)
                => \/ /\ id \in DOMAIN tasks' /\ tasks'[id].pc = "getChats"
                      /\ tasks'[id].arg.state = "CONNECTED" /\ sends' = sends
                   \/ /\ id \notin DOMAIN tasks' /\ sends' = sends
                      /\ logs'.error = logs.error + 1
             /\ sends' # sends /\ Len(sends') > Len(sends)
                => tasks[id].pc = "getChats" /\ tasks[id].arg.state = "CONNECTED"]_vars

\* C21 witness: one strict handler saw CONNECTED and its startup notice went
\* out; a later one has asked 30 times without seeing CONNECTED and its 31st
\* query is under way.
C21_Witness ==
    /\ Len(sends) = 1 /\ sends[1].by = "startup" /\ sends[1].status = "sent"
    /\ \E id \in DOMAIN tasks :
          /\ tasks[id].kind = "strict" /\ tasks[id].pc = "getState"
          /\ tasks[id].arg.queries = 30 /\ tasks[id].arg.state = "OPENING"

\* The ready handlers that have a startup notice in flight.
NoticeTasks == {id \in DOMAIN tasks : tasks[id].kind = "ready" /\ tasks[id].pc = "sendMessage"}

\* C22: a startup notice is issued only by a ready handler whose enumeration
\* held the group, one notice per handler, addressed to the id that this
\* handler has just put in the cache; when the send settles, nothing further
\* is sent, a failure is logged as an error, and cache and session stay as
\* they were.
C22_NoticeOncePerReadiness ==
    [][/\ \A i \in (DOMAIN sends') \ (DOMAIN sends) :
             sends'[i].by = "startup"
             => /\ Len(sends') = Len(sends) + 1
                /\ \E id \in DOMAIN tasks :
                      /\ tasks[id].kind = "ready" /\ tasks[id].pc = "gotChats"
                      /\ tasks[id].arg.t = "chats" /\ FindTarget(tasks[id].arg.v) # 0
                      /\ sends'[i].to = tasks[id].arg.v[FindTarget(tasks[id].arg.v)].id
                      /\ sends'[i].to = targetGroupId'
                      /\ tasks'[id].pc = "sendMessage" /\ tasks'[id].arg.v = i
       /\ \A id \in NoticeTasks :
             \/ id \in DOMAIN tasks' /\ tasks'[id] = tasks[id]
             \/ /\ id \notin DOMAIN tasks'
                /\ Len(sends') = Len(sends)
                /\ sends'[tasks[id].arg.v].status \in {"sent", "failed"}
                /\ sends'[tasks[id].arg.v].status = "failed" => logs'.error = logs.error + 1
                /\ targetGroupId' = targetGroupId /\ session' = session
                /\ DOMAIN tasks' = DOMAIN tasks \ {id}]_vars

\* C22 witness: the startup notice failed, the error is logged, the handler
\* is over and the cache still holds the id the notice was addressed to.
C22_Witness ==
    /\ Len(sends) = 1 /\ sends[1].by = "startup" /\ sends[1].status = "failed"
    /\ logs.error = 1 /\ tasks = <<>> /\ targetGroupId = sends[1].to

\* C23: a command whose reply text is missing or empty issues no send and
\* suspends no handler, also when it names a message to quote and the target
\* is resolved; with the target resolved it logs nothing either.
C23_NoReplyNoSend ==
    [][\A p \in Payloads :
          (OnConfirmation(p) /\ p.t = "object" /\ ~NonEmpty(p.reply_message))
          => /\ sends' = sends /\ tasks' = tasks
             /\ targetGroupId # Null => logs' = logs]_vars

\* C23 witness: with the target resolved, a command with a quote id and an
\* empty reply text, and one without a reply text, were delivered, and the
\* startup notice is the only send there is.
C23_Witness ==
    /\ \E c \in commands :
          /\ c.payload = Command(Str(<<"m123">>), Str(<<>>))
          /\ c.cache # Null /\ c.outcome = "no_reply"
    /\ \E c \in commands :
          /\ c.payload = Command(Undefined, Undefined)
          /\ c.cache # Null /\ c.outcome = "no_reply"
    /\ Len(sends) = 1 /\ sends[1].by = "startup"

\* C24: the cache changes only in a step in which a ready handler resumes
\* from its enumeration, so no lifecycle event, message handler, confirmation
\* delivery or HTTP request changes it; and an error event changes nothing
\* but the error count, so whatever could be relayed before it can be
\* relayed after it.
C24_SingleWriter ==
    [][/\ targetGroupId' # targetGroupId
          => /\ \E id \in DOMAIN tasks : ReadyResume(id)
             /\ ~(\/ OnQr \/ OnError \/ OnAuthFailure \/ OnDisconnected
                  \/ \E p \in Payloads : OnConfirmation(p)
                  \/ \E msg \in AnyMessage : Delivery(msg)
                  \/ \E id \in DOMAIN tasks :
                        GetChatSettle(id) \/ GetContactSettle(id) \/ GroupsRespond(id)
                  \/ XAddSettle
                  \/ responses' # responses)
       /\ OnError
          => /\ UNCHANGED <<targetGroupId, session, chats, tasks, xaddQ, stream, relayed,
                            sends, handled, commands, lastResolve, responses>>
             /\ logs'.warn = logs.warn /\ logs'.error = logs.error + 1]_vars

\* C24 witness: the target was resolved, an error was logged that belongs to
\* no message, command or send, and the third event, a message of the target
\* conversation, is in the stream.
C24_Witness ==
    /\ targetGroupId # Null /\ logs.error = 1 /\ n = 3
    /\ commands = {} /\ Len(sends) = 1 /\ sends[1].status = "sent"
    /\ \A h \in handled : h.outcome # "error"
    /\ Len(stream) = 1 /\ stream[1].wid = <<"msg", 3>>

FieldsOf(record) == DOMAIN record

\* C25: every stream entry has the eight fields wid, chat_id, chat_name,
\* sender_id, sender_name, timestamp, type and body and no other, each the
\* string form of what it is taken from; sender_id is the author of the
\* message when it has one and its from address otherwise; sender_name is the
\* contact's pushname when it has one, else its name, else "Unknown".
C25_RecordShape ==
    \A i \in DOMAIN stream :
        LET r == stream[i]
            m == relayed[i].msg
            c == ContactOf(m)
        IN  /\ FieldsOf(r) = {"wid", "chat_id", "chat_name", "sender_id", "sender_name",
                              "timestamp", "type", "body"}
            /\ r.wid = m.wid /\ r.chat_id = m.chat
            /\ \E cs \in Enumerations :
                  m.chat \in ChatIdsOf(cs) /\ r.chat_name = ChatById(cs, m.chat).name
            /\ r.timestamp = ToString(m.timestamp) /\ r.type = m.type /\ r.body = m.body
            /\ r.sender_id = IF NonEmpty(m.author) THEN m.author.v ELSE m.from
            /\ r.sender_name = IF NonEmpty(c.pushname) THEN c.pushname.v
                               ELSE IF NonEmpty(c.name) THEN c.name.v
                               ELSE <<"Unknown">>

\* C25 witness: the stream holds a message of another account, whose sender
\* has an author id, and a message of the linked account, which has none and
\* whose contact has a pushname and a name.
C25_Witness ==
    \E i, j \in DOMAIN stream :
        /\ relayed[i].msg.author.t = "string" /\ stream[i].sender_id = <<"ana@c.us">>
        /\ relayed[j].msg.author = Undefined /\ stream[j].sender_id = <<"me@c.us">>
        /\ stream[j].sender_name = <<"Ana">> /\ stream[i].sender_name # <<"Ana">>

BridgeSent(msg) == msg.origin \in {"startup", "confirmation"}

\* C26: the body of every message the bridge sends, startup notice or
\* confirmation reply, starts with the bot marker, so its echo as an event of
\* the linked account meets the loop guard; every such echo that was handled
\* ended at the guard, and none is in the stream or has a handler suspended.
C26_OwnSendsMarked ==
    /\ \A i \in DOMAIN sends :
          /\ StartsWith(sends[i].body, BotMarker)
          /\ IsOwnBotMessage(Msg(<<"sent", i>>, TRUE, sends[i].body, sends[i].to, sends[i].by))
    /\ \A h \in handled : BridgeSent(h.msg) => h.outcome = "ignored" /\ h.stage = "guard"
    /\ \A i \in DOMAIN relayed : ~BridgeSent(relayed[i].msg)
    /\ \A id \in MsgTasks : ~BridgeSent(tasks[id].arg.msg)

\* C26 witness: the startup notice came back from the target conversation
\* and was dropped at the guard, and a confirmation reply has been sent.
C26_Witness ==
    /\ \E h \in handled :
          /\ h.msg.origin = "startup" /\ h.msg.fromMe /\ h.msg.chat = h.seen
          /\ h.outcome = "ignored"
    /\ \E i \in DOMAIN sends : sends[i].by = "confirmation" /\ sends[i].status = "sent"

\* The ready handlers of events fired after that of handler id which have
\* already written the cache and are waiting for their startup notice.
YoungerWriters(id) ==
    {k \in DOMAIN tasks : k > id /\ tasks[k].kind = "ready" /\ tasks[k].pc = "sendMessage"}

\* C27 as stated: once the handler of a later ready event has written the
\* cache, the handler of an earlier ready event that resumes after it does not
\* replace what the later one wrote.
C27_LatestReadyWins ==
    [][\A id \in DOMAIN tasks :
          (ReadyResume(id) /\ YoungerWriters(id) # {}) => targetGroupId' = targetGroupId]_vars

\* The position of a relayed message among the events delivered to the
\* bridge: a message typed by a person is numbered by its event.
DeliveredAt(msg) == msg.wid[2]

\* C28 as stated: the stream holds the relayed messages in the order in
\* which their events were delivered.
C28_AppendInDeliveryOrder ==
    \A i, j \in DOMAIN relayed :
        i < j => DeliveredAt(relayed[i].msg) < DeliveredAt(relayed[j].msg)

\* C29: a command that is delivered while the cache is set and that issues a
\* send addresses it to the id the cache holds at that moment, the id the
\* unresolved check has just seen, and the delivery leaves the cache as it is;
\* the address of a send that has been issued never changes, whatever a ready
\* handler writes to the cache afterwards.
C29_ConfirmationSnapshot ==
    [][/\ \A p \in Payloads :
             (OnConfirmation(p) /\ Len(sends') > Len(sends))
             => /\ targetGroupId # Null
                /\ sends'[Len(sends')].to = targetGroupId
                /\ targetGroupId' = targetGroupId
                /\ Delivered(p, "sent") \in commands'
       /\ \A i \in DOMAIN sends : sends'[i].to = sends[i].to]_vars

\* C29 witness: a confirmation reply was addressed to the id cached at its
\* delivery, and a later resolution has put another id in the cache.
C29_Witness ==
    \E i \in DOMAIN sends :
        /\ sends[i].by = "confirmation" /\ sends[i].to # targetGroupId
        /\ \E c \in commands : c.outcome = "sent" /\ c.cache = sends[i].to
        /\ lastResolve.before = sends[i].to /\ lastResolve.cache = targetGroupId

\* C30: once the cache holds an id, no step puts null back; the only steps
\* that change it are resumptions of a ready handler whose listing holds the
\* group, and they put the id of that group in it.
C30_NeverReset ==
    [][targetGroupId # Null
       => /\ targetGroupId' # Null
          /\ targetGroupId' # targetGroupId
             => \E id \in DOMAIN tasks :
                   /\ ReadyResume(id) /\ tasks[id].arg.t = "chats"
                   /\ FindTarget(tasks[id].arg.v) # 0
                   /\ targetGroupId' = tasks[id].arg.v[FindTarget(tasks[id].arg.v)].id]_vars

\* C30 witness: with an id in the cache, a ready handler went through a
\* listing without the group, and the cache still holds that id.
C30_Witness ==
    /\ lastResolve.t = "resolved" /\ FindTarget(lastResolve.listing) = 0
    /\ lastResolve.before # Null /\ targetGroupId = lastResolve.before

====
